---- MODULE Spec2Model ----
(***************************************************************************)
(* index_permute: reorder a slice in place by a validated permutation      *)
(* index, sequentially through a temporary Vec or in parallel through a    *)
(* MaybeUninit buffer filled by scoped worker threads (src/src/lib.rs).    *)
(*                                                                         *)
(* A slice is its length and a function from positions 0..len-1 to its    *)
(* elements.  Elements are move-only values identified by Elem(k).  A Vec  *)
(* of uninitialised memory (`temp`, `buffer`) is its length and a function *)
(* defined on the slots written so far; Uninit stands for what a read of   *)
(* an unwritten slot yields.                                               *)
(***************************************************************************)
EXTENDS Integers, FiniteSets, TLC

VARIABLES
    raw,          \* the raw index handed to a constructor of PermuteIndex
    ctor,         \* constructor called: "none", "try_new", "new_unchecked"
    index,        \* PermuteIndex.data once the constructor returned it
    index_len,    \* ... and its length
    data,         \* the caller's slice `data`: its elements
    data_len,     \* ... and its length
    orig,         \* the content of `data` when the apply call started
    entry,        \* entry point called: "none", "seq", "order", "par"
    num_threads,  \* argument num_threads of the parallel entry point
    path,         \* "none", "sequential" (lines 127-165), "parallel" (lines 214-258)
    pc,           \* position of the calling thread
    i,            \* loop counter of the calling thread
    temp,         \* `temp` of try_order_by_index_inplace: its written slots
    temp_len,     \* ... and its Vec length (set_len)
    chunk_size,   \* `chunk_size` of the parallel entry point
    buffer,       \* `buffer` of the parallel entry point: its written slots
    buffer_len,   \* ... and its Vec length
    workers,      \* spawned scoped threads, in spawn order
    result,       \* "none", "InvalidIndex", "LengthMismatch", "Ok", "panic",
                  \* "crash" (the process died on an invalid memory access)
    dropped,      \* number of element destructors run during the call
    data_hist,    \* per touched data position: ptr::read / ptr::write counts
    buf_hist      \* per touched buffer slot: writers, write and read counts

vars == <<raw, ctor, index, index_len, data, data_len, orig, entry, num_threads,
          path, pc, i, temp, temp_len, chunk_size, buffer, buffer_len, workers,
          result, dropped, data_hist, buf_hist>>

----------------------------------------------------------------------------
(* Bounds of the element-level model. *)
MaxLen == 5
\* longest slice handed to the parallel entry point
MaxParLen == 4
MaxThreads == 2
\* longest raw index handed to new_unchecked
MaxUncheckedLen == 3
\* Stand-in for the literal 10_000 of line 210 in the element-level
\* specification, where every element move is a step.
SmallThreshold == 3

(* Program constants. *)
PARALLEL_THRESHOLD == 10000
\* A usize of 64 bits is kept as the integer of the same bits read as an
\* isize: x itself below 2^63, x - 2^64 from 2^63 on.  usize::MAX is -1
\* and usize::MAX - k is -1 - k.  Wrapping addition and subtraction of
\* usize are then the addition and subtraction of these integers; the
\* order and the division of usize are ULess and UDiv.
USIZE_MAX == -1
\* content of a slot of uninitialised memory
Uninit == 0
\* a word found in memory outside the slice that is neither zero nor the
\* bits of an element
Stray == 33

----------------------------------------------------------------------------
(* Slices. *)
Empty == [k \in {} |-> Uninit]
len_of(s) == Cardinality(DOMAIN s)
Elem(k) == 10 * (k + 1)
FreshData(n) == [k \in 0 .. n - 1 |-> Elem(k)]
Get(s, k) == IF k \in DOMAIN s THEN s[k] ELSE Uninit
Put(s, k, v) == [j \in DOMAIN s \cup {k} |-> IF j = k THEN v ELSE s[j]]

\* ptr::read(data.as_ptr().add(p)), lines 151 and 236: the element at p.
\* For p outside the slice, which only an index from new_unchecked can hold,
\* the read is undefined: the process dies (Faults) or the read yields the
\* word that lies in memory there.  That word can be anything: zero, some
\* other word that is no element (Stray), an element of the caller that
\* lies behind the slice (the next one is Elem(len)), or the bits of an
\* element of the slice itself, of which `temp` and `buffer` hold copies.
\* Two such reads in one call can yield different words.
Garbage(d, len) == {Uninit, Stray, Elem(len)} \cup {d[k] : k \in 0 .. len - 1}
Loaded(d, len, p) == IF p < len THEN {d[p]} ELSE Garbage(d, len)
Faults(len, p) == p >= len

\* raw indices handed to new_unchecked: any values up to len, which is
\* outside the slice as every larger value is
UncheckedIndices ==
    UNION {[0 .. m - 1 -> 0 .. m] : m \in 0 .. MaxUncheckedLen}

RawIndices == UNION {[0 .. m - 1 -> 0 .. MaxLen] : m \in 0 .. MaxLen}

----------------------------------------------------------------------------
(* PermuteIndex::check_index, lines 65-77: the loop over `indices` with    *)
(* the `seen` vector; k is the loop position.                              *)
RejectsMissingSeen(v, len, seen) == v >= len

Rejects(v, len, seen) == v >= len \/ seen[v]

RECURSIVE check_from(_, _, _)
check_from(indices, k, seen) ==
    IF k = len_of(indices) THEN TRUE
    ELSE IF Rejects(indices[k], len_of(indices), seen) THEN FALSE
    ELSE check_from(indices, k + 1, [seen EXCEPT ![indices[k]] = TRUE])

check_index(indices) ==
    check_from(indices, 0, [k \in 0 .. len_of(indices) - 1 |-> FALSE])

----------------------------------------------------------------------------
(* Bookkeeping of the raw memory operations on `data` and `buffer`. *)
NoDataOps == [reads |-> 0, writes |-> 0, stale |-> 0]
NoBufOps == [writers |-> {}, writes |-> 0, reads |-> 0, empty_reads |-> 0]
DataOps(h, p) == IF p \in DOMAIN h THEN h[p] ELSE NoDataOps
BufOps(h, s) == IF s \in DOMAIN h THEN h[s] ELSE NoBufOps
DataRead(h, p) ==
    LET o == DataOps(h, p)
    IN  Put(h, p, [o EXCEPT !.reads = @ + 1,
                            !.stale = @ + (IF o.reads > 0 \/ o.writes > 0 THEN 1 ELSE 0)])
\* a read outside the slice touches no position of it
DataReadAt(h, len, p) == IF p < len THEN DataRead(h, p) ELSE h
DataWrite(h, p) == Put(h, p, [DataOps(h, p) EXCEPT !.writes = @ + 1])
BufWrite(h, s, w) ==
    Put(h, s, [BufOps(h, s) EXCEPT !.writers = @ \cup {w}, !.writes = @ + 1])
BufRead(h, s) ==
    LET o == BufOps(h, s)
    IN  Put(h, s, [o EXCEPT !.reads = @ + 1,
                            !.empty_reads = @ + (IF o.writes = 0 THEN 1 ELSE 0)])

----------------------------------------------------------------------------
Init ==
    /\ raw \in RawIndices
    /\ ctor = "none"
    /\ index = Empty
    /\ index_len = 0
    /\ data = Empty
    /\ data_len = 0
    /\ orig = Empty
    /\ entry = "none"
    /\ num_threads = 0
    /\ path = "none"
    /\ pc = "new"
    /\ i = 0
    /\ temp = Empty
    /\ temp_len = 0
    /\ chunk_size = 0
    /\ buffer = Empty
    /\ buffer_len = 0
    /\ workers = Empty
    /\ result = "none"
    /\ dropped = 0
    /\ data_hist = Empty
    /\ buf_hist = Empty

(* PermuteIndex::try_new, lines 100-106. *)
TryNew ==
    /\ pc = "new"
    /\ ctor' = "try_new"
    /\ IF check_index(raw)
       THEN /\ index' = raw
            /\ index_len' = len_of(raw)
            /\ pc' = "idle"
            /\ UNCHANGED result
       ELSE /\ result' = "InvalidIndex"
            /\ pc' = "done"
            /\ UNCHANGED <<index, index_len>>
    /\ UNCHANGED <<raw, data, data_len, orig, entry, num_threads, path, i, temp,
                   temp_len, chunk_size, buffer, buffer_len, workers, dropped,
                   data_hist, buf_hist>>

(* PermuteIndex::new_unchecked, lines 110-114: the raw index is kept as   *)
(* it is, a permutation of 0..len or not.                                 *)
NewUnchecked ==
    /\ pc = "new"
    /\ raw \in UncheckedIndices
    /\ ctor' = "new_unchecked"
    /\ index' = raw
    /\ index_len' = len_of(raw)
    /\ pc' = "idle"
    /\ UNCHANGED <<raw, data, data_len, orig, entry, num_threads, path, i, temp,
                   temp_len, chunk_size, buffer, buffer_len, workers, result,
                   dropped, data_hist, buf_hist>>

(* The caller passes a slice of n elements and the index to               *)
(* try_order_by_index_inplace (as tests::test_permute_order does).        *)
CallSeq(n) ==
    /\ pc = "idle"
    /\ data' = FreshData(n)
    /\ data_len' = n
    /\ orig' = FreshData(n)
    /\ entry' = "seq"
    /\ pc' = "seq_call"
    /\ UNCHANGED <<raw, ctor, index, index_len, num_threads, path, i, temp, temp_len,
                   chunk_size, buffer, buffer_len, workers, result, dropped,
                   data_hist, buf_hist>>

(* The caller passes a slice of n elements and the index to the wrapper   *)
(* order_by_index_inplace, lines 177-184, which calls                     *)
(* try_order_by_index_inplace.                                            *)
CallOrder(n) ==
    /\ pc = "idle"
    /\ data' = FreshData(n)
    /\ data_len' = n
    /\ orig' = FreshData(n)
    /\ entry' = "order"
    /\ pc' = "seq_call"
    /\ UNCHANGED <<raw, ctor, index, index_len, num_threads, path, i, temp,
                   temp_len, chunk_size, buffer, buffer_len, workers, result,
                   dropped, data_hist, buf_hist>>

\* lines 181-183: order_by_index_inplace panics on an Err of the call
Unwrapped(e, r) == IF e = "order" /\ r # "Ok" THEN "panic" ELSE r

(* The caller passes a slice of n elements, the index and nt to           *)
(* try_order_by_index_parallel_inplace_with_threads.                      *)
CallPar(n, nt) ==
    /\ pc = "idle"
    /\ data' = FreshData(n)
    /\ data_len' = n
    /\ orig' = FreshData(n)
    /\ entry' = "par"
    /\ num_threads' = nt
    /\ pc' = "par_call"
    /\ UNCHANGED <<raw, ctor, index, index_len, path, i, temp, temp_len, chunk_size,
                   buffer, buffer_len, workers, result, dropped, data_hist,
                   buf_hist>>

----------------------------------------------------------------------------
(* try_order_by_index_inplace, lines 127-165. *)

\* line 136 and line 214: the length check
LengthsMatchAtMost(indices_len, len) == indices_len <= len

LengthsMatch(indices_len, len) == indices_len = len

\* lines 134-147: the length check, then `temp` with len uninitialised slots
SeqEnter ==
    /\ pc = "seq_call"
    /\ path' = "sequential"
    /\ IF ~LengthsMatch(index_len, data_len)
       THEN /\ result' = Unwrapped(entry, "LengthMismatch")
            /\ pc' = "done"
            /\ UNCHANGED <<temp, temp_len, i>>
       ELSE /\ temp' = Empty
            /\ temp_len' = data_len
            /\ i' = 0
            /\ pc' = "seq_fill"
            /\ UNCHANGED result
    /\ UNCHANGED <<raw, ctor, index, index_len, data, data_len, orig, entry,
                   num_threads, chunk_size, buffer, buffer_len, workers, dropped,
                   data_hist, buf_hist>>

\* lines 148-153: the position of `data` moved into temp[k]
MoveSrcInverse(indices, k) ==
    IF \E j \in DOMAIN indices : indices[j] = k
    THEN CHOOSE j \in DOMAIN indices : indices[j] = k
    ELSE indices[k]

MoveSrc(indices, k) == indices[k]

\* SeqFill moving data[index[i]] straight into data[i], without `temp`
SeqFillInPlace ==
    /\ pc = "seq_fill"
    /\ IF i < index_len
       THEN /\ \E v \in Loaded(data, data_len, index[i]) :
                    data' = [data EXCEPT ![i] = v]
            /\ data_hist' = DataWrite(DataReadAt(data_hist, data_len, index[i]), i)
            /\ i' = i + 1
            /\ UNCHANGED <<pc, result>>
       ELSE /\ pc' = "done"
            /\ result' = "Ok"
            /\ i' = 0
            /\ UNCHANGED <<data, data_hist>>
    /\ UNCHANGED <<raw, ctor, index, index_len, data_len, orig, entry, num_threads,
                   path, temp, temp_len, chunk_size, buffer, buffer_len, workers,
                   dropped, buf_hist>>

\* lines 148-154: one iteration of the first loop, or its exit
SeqFill ==
    /\ pc = "seq_fill"
    /\ IF i < index_len
       THEN LET src == MoveSrc(index, i) IN
              \/ /\ \E v \in Loaded(data, data_len, src) :
                       temp' = Put(temp, i, v)
                 /\ data_hist' = DataReadAt(data_hist, data_len, src)
                 /\ i' = i + 1
                 /\ UNCHANGED <<pc, result>>
              \/ /\ Faults(data_len, src)
                 /\ result' = "crash"
                 /\ pc' = "done"
                 /\ UNCHANGED <<temp, data_hist, i>>
       ELSE /\ pc' = "seq_back"
            /\ i' = 0
            /\ UNCHANGED <<temp, data_hist, result>>
    /\ UNCHANGED <<raw, ctor, index, index_len, data, data_len, orig, entry,
                   num_threads, path, temp_len, chunk_size, buffer, buffer_len,
                   workers, dropped, buf_hist>>

\* line 162: temp.set_len(0) before `temp` goes out of scope
ReleasedLenKept(len) == len

ReleasedLen(len) == 0

\* SeqBack with the write-back of positions with index[i] = i left out
SeqBackSkipFixed ==
    /\ pc = "seq_back"
    /\ IF i < data_len
       THEN /\ IF index[i] = i
               THEN UNCHANGED <<data, data_hist>>
               ELSE /\ data' = [data EXCEPT ![i] = Get(temp, i)]
                    /\ data_hist' = DataWrite(data_hist, i)
            /\ i' = i + 1
            /\ UNCHANGED <<pc, temp_len, dropped, result>>
       ELSE /\ temp_len' = 0
            /\ result' = "Ok"
            /\ pc' = "done"
            /\ UNCHANGED <<data, data_hist, i, dropped>>
    /\ UNCHANGED <<raw, ctor, index, index_len, data_len, orig, entry, num_threads,
                   path, temp, chunk_size, buffer, buffer_len, workers, buf_hist>>

\* lines 157-164: one iteration of the second loop, or its exit: set_len(0),
\* the drop of `temp` (which runs the destructor of temp[0 .. temp_len)), Ok
SeqBack ==
    /\ pc = "seq_back"
    /\ IF i < data_len
       THEN /\ data' = [data EXCEPT ![i] = Get(temp, i)]
            /\ data_hist' = DataWrite(data_hist, i)
            /\ i' = i + 1
            /\ UNCHANGED <<pc, temp_len, dropped, result>>
       ELSE /\ temp_len' = ReleasedLen(temp_len)
            /\ dropped' = dropped + temp_len'
            /\ result' = "Ok"
            /\ pc' = "done"
            /\ UNCHANGED <<data, data_hist, i>>
    /\ UNCHANGED <<raw, ctor, index, index_len, data_len, orig, entry, num_threads,
                   path, temp, chunk_size, buffer, buffer_len, workers, buf_hist>>

----------------------------------------------------------------------------
(* try_order_by_index_parallel_inplace_with_threads, lines 199-259. *)

\* a < b and a <= b as usize
ULess(a, b) == IF (a < 0) = (b < 0) THEN a < b ELSE b < 0
ULessEq(a, b) == a = b \/ ULess(a, b)

\* a / b as usize, b # 0.  A dividend of 2^63 or more over a divisor below
\* 2^63 does not arise at line 219, where the divisor exceeds 1 and the
\* slice has fewer than 2^63 elements.
UDiv(a, b) ==
    CASE a >= 0 /\ b > 0 -> a \div b
      [] a >= 0 /\ b < 0 -> 0
      [] a < 0 /\ b < 0 -> IF a >= b THEN 1 ELSE 0

\* line 210: the fallback condition
UseSequentialAtThreshold(len, nt, thr) == len <= thr \/ ULessEq(nt, 1)

UseSequential(len, nt, thr) == len < thr \/ ULessEq(nt, 1)

\* line 219 with overflow checks on: `len + num_threads` panics when the
\* sum exceeds usize::MAX (len is below 2^63)
AddOverflows(len, nt) == nt < 0 /\ len + nt >= 0

\* line 219 with overflow checks off: each operation wraps modulo 2^64
ChunkSizeFloor(len, nt) == UDiv(len, nt)

ChunkSize(len, nt) == UDiv(len + nt - 1, nt)

\* line 256: dropping a Vec<MaybeUninit<T>> runs no destructor of T
MaybeUninitDrops(len) == 0

\* lines 208-229: fallback, length check, chunk size, buffer.  `checked`
\* is the build's overflow-checks setting.  A chunk size of 0 makes
\* slice::chunks panic (line 228); the unwinding drops `buffer`.
ParEnter(thr) ==
    /\ pc = "par_call"
    /\ IF UseSequential(data_len, num_threads, thr)
       THEN /\ path' = "sequential"
            /\ pc' = "seq_call"
            /\ UNCHANGED <<result, chunk_size, buffer_len, i>>
       ELSE /\ path' = "parallel"
            /\ IF ~LengthsMatch(index_len, data_len)
               THEN /\ result' = "LengthMismatch"
                    /\ pc' = "done"
                    /\ UNCHANGED <<chunk_size, buffer_len, i>>
               ELSE \E checked \in BOOLEAN :
                      IF checked /\ AddOverflows(data_len, num_threads)
                      THEN /\ result' = "panic"
                           /\ pc' = "done"
                           /\ UNCHANGED <<chunk_size, buffer_len, i>>
                      ELSE /\ chunk_size' = ChunkSize(data_len, num_threads)
                           /\ IF chunk_size' = 0
                              THEN /\ result' = "panic"
                                   /\ pc' = "done"
                                   /\ UNCHANGED <<buffer_len, i>>
                              ELSE /\ buffer_len' = data_len
                                   /\ i' = 0
                                   /\ pc' = "par_spawn"
                                   /\ UNCHANGED result
    /\ UNCHANGED <<raw, ctor, index, index_len, data, data_len, orig, entry,
                   num_threads, temp, temp_len, buffer, workers, dropped,
                   data_hist, buf_hist>>

Min(a, b) == IF a < b THEN a ELSE b

\* lines 228-229, 232: the next pair of the zipped chunk iterators, if any;
\* c chunks were taken already
HasChunk(c) == c * chunk_size < index_len /\ c * chunk_size < buffer_len
NewWorker(c) ==
    [lo |-> c * chunk_size,
     hi |-> Min(c * chunk_size + chunk_size, index_len),
     pos |-> 0, value |-> Uninit, st |-> "read"]

\* lines 232-243: one iteration of the spawning loop, or its exit
Spawn ==
    /\ pc = "par_spawn"
    /\ IF HasChunk(i)
       THEN /\ workers' = workers @@ (i :> NewWorker(i))
            /\ i' = i + 1
            /\ UNCHANGED pc
       ELSE /\ pc' = "par_join"
            /\ UNCHANGED <<workers, i>>
    /\ UNCHANGED <<raw, ctor, index, index_len, data, data_len, orig, entry,
                   num_threads, path, temp, temp_len, chunk_size, buffer,
                   buffer_len, result, dropped, data_hist, buf_hist>>

\* line 234: indices_slice[i] of the worker whose chunk starts at lo
WorkerSrcNoOffset(indices, lo, pos) == indices[pos]

WorkerSrc(indices, lo, pos) == indices[lo + pos]

\* line 239: buffer_slice[i] of the worker whose chunk starts at lo
BufferSlotNoOffset(lo, pos) == pos

BufferSlot(lo, pos) == lo + pos

\* line 236: ptr::read of the source element
WorkerRead(w) ==
    /\ pc # "done"
    /\ workers[w].st = "read"
    /\ workers[w].pos < workers[w].hi - workers[w].lo
    /\ LET src == WorkerSrc(index, workers[w].lo, workers[w].pos) IN
         \/ /\ \E v \in Loaded(data, data_len, src) :
                  workers' = [workers EXCEPT ![w].value = v, ![w].st = "write"]
            /\ data_hist' = DataReadAt(data_hist, data_len, src)
            /\ UNCHANGED <<pc, result>>
         \/ /\ Faults(data_len, src)
            /\ result' = "crash"
            /\ pc' = "done"
            /\ UNCHANGED <<workers, data_hist>>
    /\ UNCHANGED <<raw, ctor, index, index_len, data, data_len, orig, entry,
                   num_threads, path, i, temp, temp_len, chunk_size, buffer,
                   buffer_len, dropped, buf_hist>>

\* WorkerWrite storing the element straight into `data`, without `buffer`
WorkerWriteInPlace(w) ==
    /\ pc # "done"
    /\ workers[w].st = "write"
    /\ LET slot == BufferSlot(workers[w].lo, workers[w].pos) IN
         /\ data' = [data EXCEPT ![slot] = workers[w].value]
         /\ data_hist' = DataWrite(data_hist, slot)
    /\ workers' = [workers EXCEPT ![w].value = Uninit, ![w].pos = @ + 1,
                                  ![w].st = "read"]
    /\ UNCHANGED <<raw, ctor, index, index_len, data_len, orig, entry, num_threads,
                   path, pc, i, temp, temp_len, chunk_size, buffer, buffer_len,
                   result, dropped, buf_hist>>

\* line 239: MaybeUninit::write into the worker's buffer chunk
WorkerWrite(w) ==
    /\ pc # "done"
    /\ workers[w].st = "write"
    /\ LET slot == BufferSlot(workers[w].lo, workers[w].pos) IN
         /\ buffer' = Put(buffer, slot, workers[w].value)
         /\ buf_hist' = BufWrite(buf_hist, slot, w)
    /\ workers' = [workers EXCEPT ![w].value = Uninit, ![w].pos = @ + 1,
                                  ![w].st = "read"]
    /\ UNCHANGED <<raw, ctor, index, index_len, data, data_len, orig, entry,
                   num_threads, path, pc, i, temp, temp_len, chunk_size,
                   buffer_len, result, dropped, data_hist>>

\* lines 234, 242: the worker's loop ends and the thread finishes
WorkerExit(w) ==
    /\ pc # "done"
    /\ workers[w].st = "read"
    /\ workers[w].pos = workers[w].hi - workers[w].lo
    /\ workers' = [workers EXCEPT ![w].st = "finished"]
    /\ UNCHANGED <<raw, ctor, index, index_len, data, data_len, orig, entry,
                   num_threads, path, pc, i, temp, temp_len, chunk_size, buffer,
                   buffer_len, result, dropped, data_hist, buf_hist>>

\* Join without the wait for the spawned threads
JoinNoWait ==
    /\ pc = "par_join"
    /\ pc' = "par_back"
    /\ i' = 0
    /\ UNCHANGED <<raw, ctor, index, index_len, data, data_len, orig, entry,
                   num_threads, path, temp, temp_len, chunk_size, buffer,
                   buffer_len, workers, result, dropped, data_hist, buf_hist>>

\* line 244: thread::scope returns once every spawned thread has finished
Join ==
    /\ pc = "par_join"
    /\ \A w \in DOMAIN workers : workers[w].st = "finished"
    /\ pc' = "par_back"
    /\ i' = 0
    /\ UNCHANGED <<raw, ctor, index, index_len, data, data_len, orig, entry,
                   num_threads, path, temp, temp_len, chunk_size, buffer,
                   buffer_len, workers, result, dropped, data_hist, buf_hist>>

\* lines 249-258: one iteration of the phase 2 loop, or its exit: the drop
\* of `buffer` and Ok
ParBack ==
    /\ pc = "par_back"
    /\ IF i < data_len
       THEN /\ data' = [data EXCEPT ![i] = Get(buffer, i)]
            /\ buf_hist' = BufRead(buf_hist, i)
            /\ data_hist' = DataWrite(data_hist, i)
            /\ i' = i + 1
            /\ UNCHANGED <<pc, dropped, result>>
       ELSE /\ dropped' = dropped + MaybeUninitDrops(buffer_len)
            /\ result' = "Ok"
            /\ pc' = "done"
            /\ UNCHANGED <<data, data_hist, buf_hist, i>>
    /\ UNCHANGED <<raw, ctor, index, index_len, data_len, orig, entry, num_threads,
                   path, temp, temp_len, chunk_size, buffer, buffer_len, workers>>

----------------------------------------------------------------------------
(* Element-level specification: try_new, then one apply call on a slice   *)
(* of up to MaxLen elements, every element move a step.                   *)
SmallThreads == 0 .. MaxThreads
\* the largest thread count
HugeThreads == {USIZE_MAX}

Next ==
    \/ TryNew
    \/ NewUnchecked
    \/ \E n \in 0 .. MaxLen : CallSeq(n)
    \/ \E n \in 0 .. MaxLen : CallOrder(n)
    \/ \E n \in 0 .. MaxParLen, nt \in SmallThreads \cup HugeThreads :
           CallPar(n, nt)
    \/ SeqEnter
    \/ SeqFill
    \/ SeqBack
    \/ ParEnter(SmallThreshold)
    \/ Spawn
    \/ \E w \in DOMAIN workers : WorkerRead(w)
    \/ \E w \in DOMAIN workers : WorkerWrite(w)
    \/ \E w \in DOMAIN workers : WorkerExit(w)
    \/ Join
    \/ ParBack

Spec == Init /\ [][Next]_vars

\* The calling thread, once inside an apply call, keeps running, and so
\* does every spawned thread: the operating system schedules each thread
\* that can take a step.
CallerStep ==
    SeqEnter \/ SeqFill \/ SeqBack \/ ParEnter(SmallThreshold) \/ Spawn
        \/ Join \/ ParBack
WorkerStep(w) ==
    /\ w \in DOMAIN workers
    /\ WorkerRead(w) \/ WorkerWrite(w) \/ WorkerExit(w)
Fairness ==
    /\ WF_vars(CallerStep)
    /\ \A w \in 0 .. MaxParLen - 1 : WF_vars(WorkerStep(w))

SpecLive == Spec /\ Fairness

----------------------------------------------------------------------------
(* Full-size specification: the parallel entry point called with slices   *)
(* whose lengths lie around the literal threshold of line 210 and with    *)
(* thread counts up to usize::MAX, up to the end of the spawning loop.     *)
(* Only the lengths of the slices are represented at this size; their     *)
(* elements, and the moves of the elements, are not.                      *)
FullLens == {0, 1, 9999, 10000, 10001, 65532}
FullThreads == {0, 1, 2, 3, 4, 7, 101, USIZE_MAX - 9998, USIZE_MAX}

InitFull ==
    /\ data_len \in FullLens
    /\ index_len \in {data_len} \cup (IF data_len = 10001 THEN {10000} ELSE {})
    /\ num_threads \in FullThreads
    /\ raw = Empty
    /\ ctor = "try_new"
    /\ index = Empty
    /\ data = Empty
    /\ orig = Empty
    /\ entry = "par"
    /\ path = "none"
    /\ pc = "par_call"
    /\ i = 0
    /\ temp = Empty
    /\ temp_len = 0
    /\ chunk_size = 0
    /\ buffer = Empty
    /\ buffer_len = 0
    /\ workers = Empty
    /\ result = "none"
    /\ dropped = 0
    /\ data_hist = Empty
    /\ buf_hist = Empty

NextFull ==
    \/ ParEnter(PARALLEL_THRESHOLD)
    \/ SeqEnter
    \/ Spawn

SpecFull == InitFull /\ [][NextFull]_vars

----------------------------------------------------------------------------
(* Properties. *)

Returned(r) == pc = "done" /\ result = r
Called == entry # "none"
\* the index came out of try_new, hence through check_index
Validated == ctor = "try_new"
\* the parallel entry point went past the fallback and the length check
PastChunking ==
    path = "parallel" /\ index_len = data_len /\ pc # "par_call"
Positions == 0 .. data_len - 1

\* C1: once try_order_by_index_inplace has returned Ok, position k of the
\* slice holds the element that was at position index[k] when the call
\* started, for every k.
C1_ResultIsGather ==
    (Validated /\ Returned("Ok") /\ path = "sequential") =>
        /\ DOMAIN data = Positions
        /\ DOMAIN orig = Positions
        /\ \A k \in Positions : data[k] = orig[index[k]]

\* The documented example: index [2,0,1] on [10,20,30] gave [30,10,20].
C1_Witness ==
    /\ Validated
    /\ Returned("Ok")
    /\ entry = "seq"
    /\ index = [k \in 0 .. 2 |-> (k + 2) % 3]
    /\ orig = [k \in 0 .. 2 |-> 10 * (k + 1)]
    /\ data = [k \in 0 .. 2 |-> IF k = 0 THEN 30 ELSE 10 * k]

HasOutOfRange(r) == \E k \in DOMAIN r : r[k] >= len_of(r)
HasRepeat(r) == \E j, k \in DOMAIN r : j # k /\ r[j] = r[k]
IsBijection(r) ==
    \A v \in 0 .. len_of(r) - 1 : Cardinality({k \in DOMAIN r : r[k] = v}) = 1

\* C2: try_new returns Err(InvalidIndex) for every raw sequence with a
\* value >= len or a repeated value, and Ok (keeping the sequence as the
\* index) for every permutation of 0..len, the empty sequence included.
C2_TryNewIffBijection ==
    Validated =>
        /\ (HasOutOfRange(raw) \/ HasRepeat(raw)) =>
               (result = "InvalidIndex" /\ pc = "done" /\ ~Called)
        /\ IsBijection(raw) =>
               (result # "InvalidIndex" /\ index = raw /\ index_len = len_of(raw))
        /\ (result = "InvalidIndex") = ~IsBijection(raw)

\* [0,0,2] was rejected.
C2_Witness ==
    /\ Validated
    /\ raw = [k \in 0 .. 2 |-> IF k = 2 THEN 2 ELSE 0]
    /\ Returned("InvalidIndex")

\* C3: a call of either fallible entry point with an index whose length
\* differs from the slice's returns Err(LengthMismatch) from the length
\* check (which the wrapper order_by_index_inplace turns into a panic): no
\* element is read or written, no temporary or buffer is allocated, no
\* worker is spawned and the slice keeps its content.
C3_LengthMismatchNoMutation ==
    (Called /\ index_len # data_len) =>
        /\ pc \in {"seq_call", "par_call", "done"}
        /\ (pc = "done" /\ entry \in {"seq", "par"}) => result = "LengthMismatch"
        /\ (pc = "done" /\ entry = "order") => result = "panic"
        /\ data = orig
        /\ data_hist = Empty
        /\ workers = Empty
        /\ buffer = Empty /\ buffer_len = 0
        /\ temp = Empty /\ temp_len = 0

\* The parallel entry point, not falling back, returned LengthMismatch.
C3_Witness ==
    /\ Validated
    /\ Returned("LengthMismatch")
    /\ entry = "par"
    /\ path = "parallel"
    /\ data_len > index_len
    /\ index_len > 0

\* lines 148-159 as a function of the slice and the index: the content of
\* `data` after both loops
SeqResult(d, indices) ==
    LET t == [k \in DOMAIN indices |-> d[MoveSrc(indices, k)]]
    IN  [k \in DOMAIN d |-> t[k]]

\* C4: for every validated index, every slice of the index's length and
\* every num_threads, a call of the parallel entry point, once over, has
\* left the slice as the sequential algorithm leaves the same slice with
\* the same index, on the parallel path and on the fallback, however the
\* workers interleaved.
C4_EveryCallEqualsSequential ==
    (Validated /\ entry = "par" /\ index_len = data_len /\ pc = "done") =>
        data = SeqResult(orig, index)

\* usize::MAX threads: the call panicked on the chunk size and the slice
\* is as it was, not as the sequential algorithm leaves it.
C4_PanicWitness ==
    /\ Validated
    /\ entry = "par"
    /\ num_threads = USIZE_MAX
    /\ Returned("panic")
    /\ index = [k \in 0 .. 2 |-> (k + 2) % 3]
    /\ data = orig
    /\ data # SeqResult(orig, index)

\* What holds of C4: whenever an apply call returns Ok, through the
\* parallel entry point on its parallel path or on its fallback, or
\* through the sequential entry point, the slice is what the sequential
\* algorithm makes of the same slice and index, however the workers
\* interleaved.
C4_ParallelEqualsSequential ==
    (Validated /\ Returned("Ok")) => data = SeqResult(orig, index)

\* The parallel path finished with two workers or more on an index that
\* moves elements across chunks.
C4_Witness ==
    /\ Validated
    /\ Returned("Ok")
    /\ path = "parallel"
    /\ len_of(workers) >= 2
    /\ index[0] = index_len - 1
    /\ data # orig

Occurrences(d, e) == Cardinality({k \in DOMAIN d : d[k] = e})

\* C5: no element destructor runs during an apply call, and once the call
\* has returned Ok every original element is in exactly one slot of the
\* slice while the temporary Vec, its length reset, owns none.
C5_NoDropNoDuplicate ==
    /\ dropped = 0
    /\ (Validated /\ Returned("Ok")) =>
        /\ DOMAIN data = DOMAIN orig
        /\ \A k \in DOMAIN orig : Occurrences(data, orig[k]) = 1
        /\ temp_len = 0

\* The sequential apply returned with the memory of `temp` still holding
\* the bits of three elements or more (tests::test_drop).
C5_Witness ==
    /\ Validated
    /\ Returned("Ok")
    /\ path = "sequential"
    /\ data_len >= 3
    /\ DOMAIN temp = Positions
    /\ data # orig

\* C6: no position of the slice is read twice, read after it was written,
\* or written twice; once the call has returned Ok every position was
\* read exactly once and written exactly once.
C6_ReadOnceWrittenOnce ==
    Validated =>
        /\ DOMAIN data_hist \subseteq Positions
        /\ \A p \in DOMAIN data_hist :
             /\ data_hist[p].reads <= 1
             /\ data_hist[p].writes <= 1
             /\ data_hist[p].stale = 0
        /\ Returned("Ok") =>
             \A p \in Positions :
                /\ DataOps(data_hist, p).reads = 1
                /\ DataOps(data_hist, p).writes = 1

\* The parallel path returned Ok on a slice of three elements or more.
C6_Witness ==
    /\ Validated
    /\ Returned("Ok")
    /\ path = "parallel"
    /\ data_len >= 3
    /\ \A p \in Positions : DataOps(data_hist, p).reads = 1

\* C7 as stated: the parallel path is taken only when len exceeds the
\* threshold 10,000 and num_threads exceeds 1.
C7_OnlyAboveThreshold ==
    path = "parallel" => (data_len > 10000 /\ ULess(1, num_threads))

\* C7, amended: the parallel entry point leaves the fallback exactly when
\* len >= 10,000 and num_threads > 1; whenever len < 10,000 or
\* num_threads <= 1 it delegates to the sequential algorithm, and then no
\* buffer is allocated and no worker is spawned.
C7_ParallelIffAtLeastThreshold ==
    /\ pc # "par_call" =>
         /\ (path = "parallel") = (data_len >= 10000 /\ ULess(1, num_threads))
         /\ (path = "sequential") = (data_len < 10000 \/ num_threads \in {0, 1})
    /\ workers # Empty => path = "parallel"
    /\ path = "sequential" =>
         /\ workers = Empty
         /\ buffer_len = 0
         /\ pc \in {"seq_call", "seq_fill", "done"}

\* Workers were spawned for a slice of exactly 10,000 elements.
C7_Witness ==
    /\ data_len = 10000
    /\ path = "parallel"
    /\ len_of(workers) >= 2

IsFixed(k) == k \in DOMAIN index /\ index[k] = k

\* C8 as stated: a position with index[i] = i is skipped, not moved, by
\* the sequential apply.
C8_FixedPointsNotMoved ==
    (Validated /\ path = "sequential") => \A k \in DOMAIN data_hist : ~IsFixed(k)

\* C8, amended: after the sequential apply a position with index[i] = i
\* holds its original element, so the identity leaves the slice unchanged;
\* no swap is made, and fixed points are not skipped: each was moved out
\* to `temp` once and written back once.
C8_FixedPointsKeepElement ==
    (Validated /\ Returned("Ok") /\ path = "sequential") =>
        /\ \A k \in Positions :
             IsFixed(k) =>
                /\ data[k] = orig[k]
                /\ DataOps(data_hist, k).reads = 1
                /\ DataOps(data_hist, k).writes = 1
        /\ (\A k \in Positions : IsFixed(k)) => data = orig

\* The sequential apply returned Ok for the identity on three elements or
\* more.
C8_Witness ==
    /\ Validated
    /\ Returned("Ok")
    /\ path = "sequential"
    /\ data_len >= 3
    /\ \A k \in Positions : IsFixed(k)
    /\ data = orig

Slots == 0 .. buffer_len - 1

\* C9: on the parallel path every buffer slot is written at most once, by
\* the worker whose chunk contains it, and read at most once, after it was
\* written; when phase 2 starts every slot has been written once, and when
\* the call returns every slot has been written once and read once.
C9_BufferSlotLifecycle ==
    /\ DOMAIN buf_hist \subseteq Slots
    /\ DOMAIN buffer = {s \in DOMAIN buf_hist : buf_hist[s].writes > 0}
    /\ \A s \in DOMAIN buf_hist :
         /\ buf_hist[s].writes <= 1
         /\ buf_hist[s].reads <= 1
         /\ buf_hist[s].empty_reads = 0
         /\ buf_hist[s].reads = 1 => buf_hist[s].writes = 1
         /\ Cardinality(buf_hist[s].writers) = buf_hist[s].writes
         /\ \A w \in buf_hist[s].writers :
              /\ w \in DOMAIN workers
              /\ workers[w].lo <= s
              /\ s < workers[w].hi
    /\ pc = "par_back" =>
         /\ Slots = Positions
         /\ \A s \in Slots : BufOps(buf_hist, s).writes = 1
    /\ (Returned("Ok") /\ path = "parallel") =>
         /\ Slots = Positions
         /\ \A s \in Slots :
              BufOps(buf_hist, s).writes = 1 /\ BufOps(buf_hist, s).reads = 1

\* The parallel path returned Ok with slots written by different workers.
C9_Witness ==
    /\ Validated
    /\ Returned("Ok")
    /\ path = "parallel"
    /\ \E s, t \in DOMAIN buf_hist : buf_hist[s].writers # buf_hist[t].writers
    /\ \A s \in Slots : BufOps(buf_hist, s).reads = 1

Spawning == path = "parallel" /\ pc \in {"par_spawn", "par_join"}

\* C10: for every num_threads > 1 and every len at or above the threshold,
\* the parallel path splits the index and the buffer into chunks and ends
\* the spawning loop with exactly num_threads chunks, one worker each.
C10_EveryCallSplitsInNumThreads ==
    PastChunking =>
        /\ result # "panic"
        /\ pc = "par_join" => len_of(workers) = num_threads

\* 65,532 elements and usize::MAX - 9998 threads: the call panicked on the
\* chunk size; nothing was split and no worker was spawned.
C10_PanicWitness ==
    /\ PastChunking
    /\ data_len = 65532
    /\ num_threads = USIZE_MAX - 9998
    /\ Returned("panic")
    /\ workers = Empty
    /\ buffer_len = 0

\* The count alone, where the spawning loop is reached: it ends with
\* exactly num_threads chunks, one worker each.
C10_ExactlyNumThreadsChunks ==
    (path = "parallel" /\ pc = "par_join") => len_of(workers) = num_threads

\* What holds of C10: whenever the parallel path reaches the spawning loop,
\* chunk_size is ceil(len / num_threads) and the loop spawns one worker per
\* chunk, chunk c being c*chunk_size .. min((c+1)*chunk_size, len): the
\* chunks are non-empty, contiguous, pairwise disjoint, of size chunk_size
\* except possibly the last, and when the loop ends they cover 0..len;
\* their number is ceil(len / chunk_size), which is at most num_threads
\* and can be less.
C10_ChunkPartition ==
    Spawning =>
        /\ IF num_threads < 0
           THEN chunk_size = 1
           ELSE /\ chunk_size * num_threads >= data_len
                /\ (chunk_size - 1) * num_threads < data_len
        /\ DOMAIN workers = 0 .. len_of(workers) - 1
        /\ ULessEq(len_of(workers), num_threads)
        /\ \A c \in DOMAIN workers :
             /\ workers[c].lo = IF c = 0 THEN 0 ELSE workers[c - 1].hi
             /\ workers[c].lo < workers[c].hi
             /\ workers[c].hi <= data_len
             /\ workers[c].hi - workers[c].lo <= chunk_size
             /\ workers[c].hi < data_len
                    => workers[c].hi - workers[c].lo = chunk_size
             /\ workers[c].hi = data_len => c = len_of(workers) - 1
        /\ pc = "par_join" =>
             /\ len_of(workers) >= 1
             /\ workers[len_of(workers) - 1].hi = data_len
             /\ (len_of(workers) - 1) * chunk_size < data_len
             /\ len_of(workers) * chunk_size >= data_len

\* 10,000 elements and 101 threads: 100 chunks of 100.
C10_Witness ==
    /\ path = "parallel"
    /\ pc = "par_join"
    /\ data_len = 10000
    /\ num_threads = 101
    /\ chunk_size = 100
    /\ len_of(workers) = 100

AllFinished ==
    \A w \in DOMAIN workers :
        workers[w].st = "finished" /\ workers[w].pos = workers[w].hi - workers[w].lo
Phase2Acted ==
    \/ pc = "par_back"
    \/ \E s \in DOMAIN buf_hist : buf_hist[s].reads > 0
    \/ \E p \in DOMAIN data_hist : data_hist[p].writes > 0

\* C11: on the parallel path, whenever phase 2 has started (the calling
\* thread is in the phase 2 loop, or a buffer slot has been read, or a
\* position of the slice has been written), every spawned worker has made
\* all the moves of its chunk and has finished.
C11_JoinBarrier ==
    (path = "parallel" /\ Phase2Acted) => AllFinished

\* Phase 2 is under way after two workers or more.
C11_Witness ==
    /\ Validated
    /\ path = "parallel"
    /\ pc = "par_back"
    /\ i > 0
    /\ len_of(workers) >= 2
    /\ AllFinished

\* the index [1,0,2,4,3]: two 2-cycles and a fixed point
TwoCycles ==
    [k \in 0 .. 4 |-> IF k = 0 THEN 1 ELSE IF k = 1 THEN 0
                      ELSE IF k = 2 THEN 2 ELSE IF k = 3 THEN 4 ELSE 3]
Written == {p \in DOMAIN data_hist : data_hist[p].writes > 0}

\* C12 as stated: the sequential apply swaps elements of the slice in
\* place along the cycles of the index and keeps no element outside the
\* slice; [1,0,2,4,3] is realised by two swaps, which write four positions
\* and leave position 2 alone.
C12_CycleSwapsInPlace ==
    (Validated /\ path = "sequential") =>
        /\ temp = Empty
        /\ (Returned("Ok") /\ index = TwoCycles) => Cardinality(Written) = 4

\* C12, amended: the sequential apply traces no cycle, keeps no visited
\* bitmap and makes no swap.  It allocates a temporary buffer of len
\* element slots; the first loop moves every element out, temp[k] taking
\* the element at index[k], and writes nothing to the slice; the second
\* loop writes temp[k] back to position k for every k, fixed points
\* included.  [1,0,2,4,3] is realised by five moves out and five moves
\* back.
C12_TempBufferMoves ==
    (Validated /\ path = "sequential") =>
        /\ pc = "seq_fill" =>
             /\ temp_len = data_len
             /\ DOMAIN temp = 0 .. i - 1
             /\ \A k \in DOMAIN temp : temp[k] = orig[index[k]]
             /\ data = orig
             /\ Written = {}
        /\ pc = "seq_back" =>
             /\ temp_len = data_len
             /\ DOMAIN temp = Positions
             /\ \A k \in Positions : temp[k] = orig[index[k]]
             /\ Written = 0 .. i - 1
             /\ \A k \in Positions :
                  data[k] = IF k < i THEN temp[k] ELSE orig[k]
        /\ Returned("Ok") =>
             /\ DOMAIN temp = Positions
             /\ Written = Positions
             /\ \A k \in Positions :
                  DataOps(data_hist, k).reads = 1 /\ data[k] = orig[index[k]]

\* [1,0,2,4,3] on [10,20,30,40,50] gave [20,10,30,50,40], all five
\* elements having gone through `temp`.
C12_Witness ==
    /\ Validated
    /\ Returned("Ok")
    /\ path = "sequential"
    /\ index = TwoCycles
    /\ orig = FreshData(5)
    /\ data = [k \in 0 .. 4 |-> orig[TwoCycles[k]]]
    /\ data[0] = 20 /\ data[3] = 50
    /\ DOMAIN temp = 0 .. 4
    /\ Cardinality(Written) = 5

WorkerRunning == \E w \in DOMAIN workers : workers[w].st # "finished"

\* C13: on the parallel path the slice is only read during phase 1: while
\* workers are being spawned, joined, or any worker has not finished, no
\* position of the slice has been written and the slice holds its
\* original content; positions are written only by the calling thread in
\* the phase 2 loop, in order, after the join.
C13_DataReadOnlyInPhase1 ==
    path = "parallel" =>
        /\ (pc \in {"par_spawn", "par_join"} \/ WorkerRunning) =>
               (data = orig /\ Written = {})
        /\ Written # {} =>
               (pc \in {"par_back", "done"} /\ Written = 0 .. i - 1)

\* One worker holds an element it has read while another has finished its
\* chunk and the calling thread waits in the join.
C13_Witness ==
    /\ Validated
    /\ path = "parallel"
    /\ pc = "par_join"
    /\ \E v, w \in DOMAIN workers :
         /\ workers[v].st = "write"
         /\ workers[w].st = "finished"
         /\ workers[w].pos > 0
    /\ data = orig

\* C15: on the parallel path, for every len >= 10,000 and every
\* num_threads >= 2 of the 64-bit word, len + num_threads - 1 does not overflow
\* the word, chunk_size is at least 1, and chunking the index and the
\* buffer does not fail.
C15_ChunkSizeNeverOverflows ==
    PastChunking =>
        /\ ~AddOverflows(data_len, num_threads)
        /\ chunk_size >= 1
        /\ result # "panic"

\* 10,000 elements and usize::MAX threads: the sum wrapped to 9,998, the
\* chunk size came out as 0 and slice::chunks panicked.
C15_Witness ==
    /\ PastChunking
    /\ data_len = 10000
    /\ num_threads = USIZE_MAX
    /\ chunk_size = 0
    /\ Returned("panic")

\* C14: every apply call on a validated index of the slice's length runs
\* to completion with Ok: when a call on the parallel path is over, it
\* has returned Ok and no worker is left running.
C14_ParallelCallReturnsOk ==
    (PastChunking /\ pc = "done") => (result = "Ok" /\ ~WorkerRunning)

\* Under fair scheduling of the calling thread and of the workers, every
\* call on slices of up to MaxLen elements ends, and one with a validated
\* index of the slice's length, unless it is a parallel call whose
\* len + num_threads overflows, ends with Ok and every worker finished.
SmallCallsReturnOk ==
    /\ Called ~> pc = "done"
    /\ (/\ Validated /\ Called /\ index_len = data_len
        /\ ~(entry = "par" /\ AddOverflows(data_len, num_threads)))
           ~> (Returned("Ok") /\ ~WorkerRunning)

====
